---- MODULE Spec2Model ----
(***************************************************************************)
(* State-machine model of proxy.py: the single-threaded CORS forwarding    *)
(* proxy (CORSProxyHandler.do_POST / do_OPTIONS served by HTTPServer).     *)
(*                                                                         *)
(* One HTTP exchange is handled at a time.  The handler blocks in two      *)
(* places: rfile.read(content_length) (line 22) and the upstream call      *)
(* urllib.request.urlopen(req, timeout=30) / response.read() (lines        *)
(* 84-85, 96); those are the points where the model's actions are cut.     *)
(* The client and the upstream server are the environment.                 *)
(***************************************************************************)
EXTENDS Integers, Sequences, FiniteSets, TLC

(* ------------------------------ bounds --------------------------------- *)
MaxBodyLen == 2        \* longest upstream body, in bytes
MaxCalls == 2          \* upstream calls after which no new request is accepted
MaxRedirects == 1      \* redirect hops urlopen follows inside one call
TimeoutTicks == 2      \* clock ticks that make up the 30 s socket timeout

(* ----------------------------- JSON values ----------------------------- *)
\* A member of a parsed JSON object as request_data.get(name) returns it:
\* None when the key is absent, else the value.
Absent == [t |-> "absent", s |-> "", n |-> 0]
Str(x) == [t |-> "str", s |-> x, n |-> 0]
Num(k) == [t |-> "num", s |-> "", n |-> k]

UrlValues == {Absent, Str(""), Num(0), Str("abc"), Str("http://up/x")}
ApiKeyValues == {Absent, Str(""), Str("k")}
DataValues == {Absent, Num(1)}

\* Result of json.loads(body): a decode error, a non-object value, or an object.
NotJson == [kind |-> "notjson", url |-> Absent, apiKey |-> Absent, data |-> Absent]
JArray == [kind |-> "array", url |-> Absent, apiKey |-> Absent, data |-> Absent]
JNull == [kind |-> "null", url |-> Absent, apiKey |-> Absent, data |-> Absent]
Obj(u, k, d) == [kind |-> "object", url |-> u, apiKey |-> k, data |-> d]
JsonValues ==
  {NotJson, JArray, JNull}
    \cup {Obj(u, k, d) : u \in UrlValues, k \in ApiKeyValues, d \in DataValues}

\* A request body on the wire: whether its bytes are valid UTF-8, and what
\* the decoded text parses to.
NonUtf8Body == [utf8 |-> FALSE, json |-> NotJson]
EmptyText == [utf8 |-> TRUE, json |-> NotJson]
RequestBodies == {NonUtf8Body} \cup {[utf8 |-> TRUE, json |-> j] : j \in JsonValues}

(* ------------------------------ requests ------------------------------- *)
ProxyPath == "/api/proxy"
Paths == {ProxyPath, "/api/other"}
\* The Content-Length header relative to the bytes the client has sent:
\* missing, "0", not an integer, equal to the body length, or larger than it.
ContentLengths == {"absent", "zero", "malformed", "exact", "over"}

NoReq == [method |-> "NONE", path |-> "", clen |-> "absent", body |-> EmptyText]
Requests ==
  {[method |-> "POST", path |-> p, clen |-> c, body |-> b] :
      p \in Paths, c \in ContentLengths, b \in RequestBodies}
    \cup {[method |-> m, path |-> p, clen |-> "absent", body |-> EmptyText] :
            m \in {"OPTIONS", "GET"}, p \in Paths}

(* --------------------------- UTF-8 codec ------------------------------- *)
\* bytes.decode('utf-8') (strict) on one- and two-byte forms, which is all
\* the byte alphabet below can spell: 65 = 'A', 195 169 = U+00E9, and a lone
\* 195 or 169 is malformed.
Bytes == {65, 195, 169}

RECURSIVE Utf8Decode(_)
Utf8Decode(b) ==
  IF b = <<>> THEN [ok |-> TRUE, text |-> <<>>]
  ELSE IF b[1] < 128 THEN
    LET r == Utf8Decode(Tail(b)) IN
      [ok |-> r.ok, text |-> IF r.ok THEN <<b[1]>> \o r.text ELSE <<>>]
  ELSE IF b[1] >= 194 /\ b[1] <= 223 /\ Len(b) >= 2 /\ b[2] >= 128 /\ b[2] <= 191 THEN
    LET r == Utf8Decode(Tail(Tail(b))) IN
      [ok |-> r.ok,
       text |-> IF r.ok THEN <<(b[1] - 192) * 64 + (b[2] - 128)>> \o r.text ELSE <<>>]
  ELSE [ok |-> FALSE, text |-> <<>>]

\* str.encode() (UTF-8) on code points below U+0800.
RECURSIVE Utf8Encode(_)
Utf8Encode(t) ==
  IF t = <<>> THEN <<>>
  ELSE IF t[1] < 128 THEN <<t[1]>> \o Utf8Encode(Tail(t))
  ELSE <<192 + (t[1] \div 64), 128 + (t[1] % 64)>> \o Utf8Encode(Tail(t))

RECURSIVE SeqsUpTo(_, _)
SeqsUpTo(S, n) ==
  IF n = 0 THEN {<<>>}
  ELSE LET shorter == SeqsUpTo(S, n - 1) IN
    shorter \cup {Append(q, x) : q \in {z \in shorter : Len(z) = n - 1}, x \in S}

UpstreamBodies == SeqsUpTo(Bytes, MaxBodyLen)

(* ----------------------------- responses ------------------------------- *)
NoText == <<>>
JsonBody(keys, error, status, details, excText) ==
  [kind |-> "json", keys |-> keys, error |-> error, status |-> status,
   details |-> details, excText |-> excText, bytes |-> <<>>]
RawBody(b) ==
  [kind |-> "raw", keys |-> {}, error |-> "", status |-> 0,
   details |-> NoText, excText |-> "", bytes |-> b]
NoBody ==
  [kind |-> "empty", keys |-> {}, error |-> "", status |-> 0,
   details |-> NoText, excText |-> "", bytes |-> <<>>]
HtmlBody ==
  [kind |-> "html", keys |-> {}, error |-> "", status |-> 0,
   details |-> NoText, excText |-> "", bytes |-> <<>>]

\* One response as the handler emits it: status line, the two headers the
\* claims are about, the body, and whether the header block and the body
\* reached the socket.
Response(status, acao, ctype, body) ==
  [status |-> status, acao |-> acao, ctype |-> ctype, body |-> body,
   hdrWire |-> TRUE, bodyWire |-> TRUE]

NotFoundResponseNoCors ==
  Response(404, FALSE, "application/json",
           JsonBody({"error"}, "Endpoint not found", 0, NoText, ""))
NotFoundResponse ==
  Response(404, TRUE, "application/json",
           JsonBody({"error"}, "Endpoint not found", 0, NoText, ""))
InvalidJsonResponse ==
  Response(400, TRUE, "application/json",
           JsonBody({"error"}, "Invalid JSON body", 0, NoText, ""))
MissingUrlResponse ==
  Response(400, TRUE, "application/json",
           JsonBody({"error"}, "Missing 'url' in request", 0, NoText, ""))
MissingApiKeyResponse ==
  Response(400, TRUE, "application/json",
           JsonBody({"error"}, "Missing 'apiKey' in request", 0, NoText, ""))
SuccessResponseUpstreamText(text) ==
  Response(200, TRUE, "application/json", RawBody(text))
SuccessResponse(text) ==
  Response(200, TRUE, "application/json", RawBody(Utf8Encode(text)))
HttpErrorResponseBadGateway(code, text) ==
  Response(502, TRUE, "application/json",
           JsonBody({"error", "status", "details"},
                    "API returned " \o ToString(code), code, text, ""))
HttpErrorResponse(code, text) ==
  Response(code, TRUE, "application/json",
           JsonBody({"error", "status", "details"},
                    "API returned " \o ToString(code), code, text, ""))
UnreachableResponse(reason) ==
  Response(503, TRUE, "application/json",
           JsonBody({"error", "details"}, "Cannot reach API server", 0, NoText, reason))
InternalErrorResponse(excText) ==
  Response(500, TRUE, "application/json",
           JsonBody({"error", "details"}, "Internal server error", 0, NoText, excText))
PreflightResponse == Response(200, TRUE, "", NoBody)
\* BaseHTTPRequestHandler.send_error(501): the answer of the HTTP layer to a
\* method for which the handler class defines no do_<METHOD>.
NotImplementedResponse == Response(501, FALSE, "text/html;charset=utf-8", HtmlBody)

(* ------------------------- request validation -------------------------- *)
\* Python truthiness of request_data.get(name): `not v` is true for None,
\* the empty string and 0.
TruthyNotNone(v) == v.t # "absent"
Truthy(v) == (v.t = "str" /\ v.s # "") \/ (v.t = "num" /\ v.n # 0)

\* if self.path != '/api/proxy'
PathAllowedAnyApi(path) == path \in Paths
PathAllowed(path) == path = ProxyPath

\* urllib.request.Request(target_url, ...) raises ValueError ("unknown url
\* type") unless the url is a string that starts with a scheme.
WellFormedUrls == {"http://up/x"}
RequestAcceptsAnyString(u) == u.t = "str"
RequestAccepts(u) == u.t = "str" /\ u.s \in WellFormedUrls

\* What self.rfile.read(content_length).decode('utf-8') sees: nothing when
\* the header is missing or 0, the whole body when the declared bytes are
\* there.  A malformed header raises at line 21, before any read.
BodyRead(clen, body) ==
  IF clen \in {"absent", "zero", "malformed"} THEN EmptyText ELSE body
\* What a read returns when the client closed before sending all it declared.
TruncatedBodies == {NonUtf8Body, EmptyText}

\* The path do_POST takes through lines 20-79 for a request line `path`, a
\* Content-Length header `clen` and the body bytes `b` that the read returned.
DoPOSTOutcome(path, clen, b) ==
  IF clen = "malformed" THEN "ValueError"
  ELSE IF ~b.utf8 THEN "UnicodeDecodeError"
  ELSE IF ~PathAllowed(path) THEN "404"
  ELSE IF b.json.kind = "notjson" THEN "400json"
  ELSE IF b.json.kind # "object" THEN "AttributeError"
  ELSE IF ~Truthy(b.json.url) THEN "400url"
  ELSE IF ~Truthy(b.json.apiKey) THEN "400key"
  ELSE IF ~RequestAccepts(b.json.url) THEN "UnknownUrlType"
  ELSE "forward"

ExceptionOutcomes == {"ValueError", "UnicodeDecodeError", "AttributeError", "UnknownUrlType"}
ExceptionText(o) ==
  CASE o = "ValueError" -> "invalid literal for int() with base 10"
    [] o = "UnicodeDecodeError" -> "'utf-8' codec can't decode byte"
    [] o = "AttributeError" -> "object has no attribute 'get'"
    [] o = "UnknownUrlType" -> "unknown url type"
    [] OTHER -> ""
ValidationResponse(o) ==
  CASE o = "404" -> NotFoundResponse
    [] o = "400json" -> InvalidJsonResponse
    [] o = "400url" -> MissingUrlResponse
    [] o = "400key" -> MissingApiKeyResponse
    [] OTHER -> InternalErrorResponse(ExceptionText(o))

\* The request built at lines 66-79 for a validated body.
UpstreamRequest(b) ==
  [method |-> "POST", url |-> b.json.url.s,
   authorization |-> "Bearer " \o b.json.apiKey.s,
   contentType |-> "application/json",
   payload |-> IF b.json.data = Absent THEN "{}" ELSE "1"]

(* ------------------------------- state --------------------------------- *)
VARIABLES
  pc,          \* "idle" (serve_forever waits), "dispatch" (request line and
               \* headers parsed), "upstream" (inside urlopen / read)
  req,         \* the request being handled (NoReq before the first one)
  avail,       \* "full" when the declared body bytes have arrived, else "partial"
  got,         \* the body as do_POST read it
  conn,        \* client connection: "open", or "closing" once the client hung up
  sent,        \* responses the handler has emitted for req, in order
  calls,       \* urlopen calls made for req
  totalCalls,  \* urlopen calls made since the server started
  prevFwd,     \* the latest earlier request that was forwarded upstream
  up           \* the upstream call: phase, timer, redirect hops, result
vars == <<pc, req, avail, got, conn, sent, calls, totalCalls, prevFwd, up>>

UpstreamCodes == {200, 201, 302, 401}
RedirectCodes == {302}
UpIdle ==
  [phase |-> "none", timer |-> 0, hops |-> 0, outcome |-> "none", code |-> 0, body |-> <<>>]

Init ==
  /\ pc = "idle"
  /\ req = NoReq
  /\ avail = "full"
  /\ got = EmptyText
  /\ conn = "open"
  /\ sent = <<>>
  /\ calls = 0
  /\ totalCalls = 0
  /\ prevFwd = NoReq
  /\ up = UpIdle

(* --------------------------- writing responses ------------------------- *)
\* A write to a client that hung up may raise (BrokenPipeError /
\* ConnectionResetError) once the header block has gone out.
WriteFailures == IF conn = "closing" THEN {FALSE, TRUE} ELSE {FALSE}

\* A response written inside the try block of do_POST.  When the body write
\* raises, the exception is not a URLError, so the catch-all at line 124
\* runs: it calls send_response(500) and end_headers() again, and the flush
\* of that second header block raises out of do_POST.
EmitTry(resp, fail) ==
  IF fail
    THEN <<[resp EXCEPT !.bodyWire = FALSE],
           [InternalErrorResponse("[Errno 32] Broken pipe")
              EXCEPT !.hdrWire = FALSE, !.bodyWire = FALSE]>>
    ELSE <<resp>>

\* A response written where no handler of do_POST is left to catch a failed
\* write: the 500 of the catch-all itself, and send_error of the HTTP layer.
EmitLast(resp, fail) ==
  IF fail THEN <<[resp EXCEPT !.bodyWire = FALSE]>> ELSE <<resp>>

Finish(responses) ==
  /\ sent' = sent \o responses
  /\ pc' = "idle"

(* ------------------------------- client -------------------------------- *)
\* HTTPServer.serve_forever accepts the next connection and
\* handle_one_request parses the request line and headers.
Accept(r) ==
  /\ pc = "idle"
  /\ totalCalls < MaxCalls
  /\ req' = r
  /\ avail' = IF r.method = "POST" /\ r.clen = "over" THEN "partial" ELSE "full"
  /\ got' = EmptyText
  /\ conn' = "open"
  /\ sent' = <<>>
  /\ calls' = 0
  /\ prevFwd' = IF calls > 0 THEN req ELSE prevFwd
  /\ up' = UpIdle
  /\ pc' = "dispatch"
  /\ UNCHANGED totalCalls

\* The client sends the body bytes it had declared but not yet sent.
ClientSendRest ==
  /\ pc = "dispatch"
  /\ avail = "partial"
  /\ conn = "open"
  /\ avail' = "full"
  /\ UNCHANGED <<pc, req, got, conn, sent, calls, totalCalls, prevFwd, up>>

\* The client closes its end of the connection while the request is handled.
ClientClose ==
  /\ pc \in {"dispatch", "upstream"}
  /\ conn = "open"
  /\ conn' = "closing"
  /\ UNCHANGED <<pc, req, avail, got, sent, calls, totalCalls, prevFwd, up>>

(* ------------------------------ handlers ------------------------------- *)
\* do_OPTIONS: status line and three CORS headers, no body.
DoOPTIONS ==
  /\ pc = "dispatch"
  /\ req.method = "OPTIONS"
  /\ Finish(<<PreflightResponse>>)
  /\ UNCHANGED <<req, avail, got, conn, calls, totalCalls, prevFwd, up>>

\* handle_one_request finds no do_GET on the handler class and answers
\* send_error(501).
SendError501 ==
  /\ pc = "dispatch"
  /\ req.method \notin {"POST", "OPTIONS"}
  /\ \E fail \in WriteFailures : Finish(EmitLast(NotImplementedResponse, fail))
  /\ UNCHANGED <<req, avail, got, conn, calls, totalCalls, prevFwd, up>>

\* do_POST from line 20 to the call of urlopen at line 84.  The read at line
\* 22 has no timeout: it returns when the declared bytes are there or the
\* client has closed.
DoPOST ==
  /\ pc = "dispatch"
  /\ req.method = "POST"
  /\ req.clen # "over" \/ avail = "full" \/ conn = "closing"
  /\ \E b \in (IF req.clen = "over" /\ avail = "partial"
                 THEN TruncatedBodies ELSE {BodyRead(req.clen, req.body)}) :
       LET o == DoPOSTOutcome(req.path, req.clen, b) IN
         /\ got' = b
         /\ IF o = "forward"
              THEN /\ calls' = calls + 1
                   /\ totalCalls' = totalCalls + 1
                   /\ up' = [UpIdle EXCEPT !.phase = "connect"]
                   /\ pc' = "upstream"
                   /\ UNCHANGED sent
              ELSE /\ \E fail \in WriteFailures :
                        Finish(IF o \in ExceptionOutcomes
                                 THEN EmitLast(ValidationResponse(o), fail)
                                 ELSE EmitTry(ValidationResponse(o), fail))
                   /\ UNCHANGED <<calls, totalCalls, up>>
  /\ UNCHANGED <<req, avail, conn, prevFwd>>

(* ------------------------------ upstream ------------------------------- *)
\* Time passes while the handler waits on the upstream socket.
Tick ==
  /\ pc = "upstream"
  /\ up.timer < TimeoutTicks
  /\ up' = [up EXCEPT !.timer = up.timer + 1]
  /\ UNCHANGED <<pc, req, avail, got, conn, sent, calls, totalCalls, prevFwd>>

\* The exception a socket timeout surfaces as.  While connecting or sending
\* the request, urllib wraps it in URLError; while waiting for the status
\* line or reading a body it reaches do_POST as a bare TimeoutError, which
\* only the catch-all at line 124 matches.
TimeoutResponse(phase) ==
  IF phase = "connect"
    THEN UnreachableResponse("timed out")
    ELSE InternalErrorResponse("timed out")
TimeoutOutcome(phase) ==
  CASE phase = "connect" -> "timeout_connect"
    [] phase = "wait" -> "timeout_wait"
    [] OTHER -> "timeout_read"

\* timeout=30 (line 84): no byte arrived on the upstream socket for the
\* whole timeout.
SocketTimeout ==
  /\ pc = "upstream"
  /\ up.timer = TimeoutTicks
  /\ up' = [up EXCEPT !.outcome = TimeoutOutcome(up.phase), !.phase = "done"]
  /\ \E fail \in WriteFailures :
       Finish(IF up.phase = "connect"
                THEN EmitTry(TimeoutResponse(up.phase), fail)
                ELSE EmitLast(TimeoutResponse(up.phase), fail))
  /\ UNCHANGED <<req, avail, got, conn, calls, totalCalls, prevFwd>>

\* Name resolution fails or the connection is refused: urlopen raises
\* URLError, handled at lines 111-122.
ConnectFailures == {"dns", "refused"}
ReasonText(f) ==
  IF f = "dns" THEN "[Errno -2] Name or service not known"
  ELSE "[Errno 111] Connection refused"
UpstreamConnectFail(f) ==
  /\ pc = "upstream"
  /\ up.phase = "connect"
  /\ up' = [up EXCEPT !.outcome = f, !.phase = "done"]
  /\ \E fail \in WriteFailures : Finish(EmitTry(UnreachableResponse(ReasonText(f)), fail))
  /\ UNCHANGED <<req, avail, got, conn, calls, totalCalls, prevFwd>>

\* The upstream accepts the connection and takes the request.
UpstreamAccept ==
  /\ pc = "upstream"
  /\ up.phase = "connect"
  /\ up' = [up EXCEPT !.phase = "wait", !.timer = 0]
  /\ UNCHANGED <<pc, req, avail, got, conn, sent, calls, totalCalls, prevFwd>>

\* The upstream sends a status line and headers.  urlopen returns the
\* response for 2xx, follows a redirect to its Location inside the same
\* call, and raises HTTPError for every other status.
UpstreamStatus(code) ==
  /\ pc = "upstream"
  /\ up.phase = "wait"
  /\ up' = IF code >= 200 /\ code < 300
             THEN [up EXCEPT !.phase = "body", !.code = code, !.timer = 0]
           ELSE IF code \in RedirectCodes /\ up.hops < MaxRedirects
             THEN [up EXCEPT !.phase = "connect", !.hops = up.hops + 1, !.timer = 0]
           ELSE [up EXCEPT !.phase = "errbody", !.code = code, !.timer = 0]
  /\ UNCHANGED <<pc, req, avail, got, conn, sent, calls, totalCalls, prevFwd>>

\* The upstream sends some more bytes of an answer it has not finished.
UpstreamDrip ==
  /\ pc = "upstream"
  /\ up.phase \in {"wait", "body", "errbody"}
  /\ up.timer > 0
  /\ up' = [up EXCEPT !.timer = 0]
  /\ UNCHANGED <<pc, req, avail, got, conn, sent, calls, totalCalls, prevFwd>>

\* The upstream closes the connection before sending a status line:
\* http.client.RemoteDisconnected, which is not a URLError.
UpstreamDisconnect ==
  /\ pc = "upstream"
  /\ up.phase = "wait"
  /\ up' = [up EXCEPT !.outcome = "disconnected", !.phase = "done"]
  /\ \E fail \in WriteFailures :
       Finish(EmitLast(InternalErrorResponse("Remote end closed connection without response"), fail))
  /\ UNCHANGED <<req, avail, got, conn, calls, totalCalls, prevFwd>>

\* Lines 85-92: response.read().decode('utf-8'), then the 200 response.
RelaySuccess(b, fail) ==
  LET d == Utf8Decode(b) IN
    IF d.ok THEN EmitTry(SuccessResponse(d.text), fail)
    ELSE EmitLast(InternalErrorResponse(ExceptionText("UnicodeDecodeError")), fail)

\* Lines 95-109: e.read().decode('utf-8'), then the response with e.code.
RelayHttpError(code, b, fail) ==
  LET d == Utf8Decode(b) IN
    IF d.ok THEN EmitTry(HttpErrorResponse(code, d.text), fail)
    ELSE EmitLast(InternalErrorResponse(ExceptionText("UnicodeDecodeError")), fail)

\* The upstream finishes its answer with body bytes b.
UpstreamBody(b) ==
  /\ pc = "upstream"
  /\ up.phase \in {"body", "errbody"}
  /\ up' = [up EXCEPT !.outcome = IF up.phase = "body" THEN "success" ELSE "httperror",
                      !.body = b, !.phase = "done"]
  /\ \E fail \in WriteFailures :
       Finish(IF up.phase = "body"
                THEN RelaySuccess(b, fail)
                ELSE RelayHttpError(up.code, b, fail))
  /\ UNCHANGED <<req, avail, got, conn, calls, totalCalls, prevFwd>>

(* ---------------------------- specification ---------------------------- *)
Next ==
  \/ \E r \in Requests : Accept(r)
  \/ ClientSendRest
  \/ ClientClose
  \/ DoOPTIONS
  \/ SendError501
  \/ DoPOST
  \/ Tick
  \/ SocketTimeout
  \/ \E f \in ConnectFailures : UpstreamConnectFail(f)
  \/ UpstreamAccept
  \/ \E code \in UpstreamCodes : UpstreamStatus(code)
  \/ UpstreamDrip
  \/ UpstreamDisconnect
  \/ \E b \in UpstreamBodies : UpstreamBody(b)

Spec == Init /\ [][Next]_vars

\* The server's own steps are taken when they can be: the handler runs, the
\* clock advances and a silent socket times out.  Nothing obliges a client
\* or an upstream to send anything.
FairSpec ==
  /\ Spec
  /\ WF_vars(DoOPTIONS)
  /\ WF_vars(SendError501)
  /\ WF_vars(DoPOST)
  /\ WF_vars(Tick)
  /\ WF_vars(SocketTimeout)

TypeOK ==
  /\ pc \in {"idle", "dispatch", "upstream"}
  /\ req \in Requests \cup {NoReq}
  /\ avail \in {"full", "partial"}
  /\ got \in RequestBodies
  /\ conn \in {"open", "closing"}
  /\ Len(sent) <= 2
  /\ calls \in 0..1
  /\ totalCalls \in 0..MaxCalls
  /\ up.timer \in 0..TimeoutTicks
  /\ up.hops \in 0..MaxRedirects

(* ------------------------------- claims -------------------------------- *)
\* The exchange for req is over and the client stayed connected throughout,
\* so what the handler wrote is what the caller received.
Completed == pc = "idle" /\ req # NoReq
Delivered == Completed /\ conn = "open"

\* The words of the spec: a field that is there and is not the empty string.
PresentNonEmpty(v) == v.t # "absent" /\ ~(v.t = "str" /\ v.s = "")
\* A field the checks at lines 50 and 58 let through: here, a non-empty string.
Given(v) == v.t = "str" /\ v.s # ""
\* The handler got past steps 2-5 (path, JSON, url, apiKey).
PassedValidation ==
  /\ req.method = "POST"
  /\ req.path = ProxyPath
  /\ got.utf8
  /\ got.json.kind = "object"
  /\ Given(got.json.url)
  /\ Given(got.json.apiKey)
IsUrl(v) == v.t = "str" /\ v.s = "http://up/x"
IsJsonError(r, status, keys, error) ==
  /\ r.status = status
  /\ r.ctype = "application/json"
  /\ r.body.kind = "json"
  /\ r.body.keys = keys
  /\ r.body.error = error

\* C1 as stated: every response the server sends, in every outcome and for
\* every method (the default answer to GET included), carries
\* Access-Control-Allow-Origin: *.
C1_EveryResponseHasCors == \A i \in 1..Len(sent) : sent[i].acao

\* C1 amended: every response that do_POST or do_OPTIONS emits carries
\* Access-Control-Allow-Origin: *, and the 501 that the HTTP layer sends for a
\* method without a handler does not.
C1_HandlerResponsesHaveCors ==
  \A i \in 1..Len(sent) :
    /\ req.method \in {"POST", "OPTIONS"} => sent[i].acao
    /\ req.method \notin {"POST", "OPTIONS"} => sent[i].status = 501 /\ ~sent[i].acao
C1_Witness ==
  /\ Delivered
  /\ req.method = "POST"
  /\ up.outcome = "httperror"
  /\ Len(sent) = 1 /\ sent[1].status = 401 /\ sent[1].acao

\* C2: urlopen is called for a request only if it is a POST to exactly
\* /api/proxy whose body parsed as a JSON object with url and apiKey present
\* and non-empty; a request with url or apiKey absent or empty is answered
\* with no upstream call made.
C2_NoCallWithoutValidation ==
  /\ calls > 0 =>
       /\ req.method = "POST"
       /\ req.path = ProxyPath
       /\ req.clen \in {"exact", "over"}
       /\ got = req.body
       /\ got.utf8
       /\ got.json.kind = "object"
       /\ PresentNonEmpty(got.json.url)
       /\ PresentNonEmpty(got.json.apiKey)
  /\ (/\ Completed
      /\ req.method = "POST"
      /\ got.json.kind = "object"
      /\ ~(PresentNonEmpty(got.json.url) /\ PresentNonEmpty(got.json.apiKey)))
       => calls = 0 /\ Len(sent) >= 1
C2_Witness ==
  /\ pc = "upstream"
  /\ calls = 1
  /\ got.json.url = Str("http://up/x")
  /\ got.json.apiKey = Str("k")

C4_RelaysEveryBody ==
  (Delivered /\ up.outcome = "success") =>
    /\ Len(sent) = 1
    /\ sent[1].status = 200
    /\ sent[1].body.kind = "raw"
    /\ sent[1].body.bytes = up.body

\* C4 amended: for a validated request whose upstream call succeeds with a
\* body that is valid UTF-8, the caller gets status 200 (whatever 2xx the
\* upstream sent) and a body equal byte for byte to the upstream body; for a
\* body that is not valid UTF-8 the caller gets 500 "Internal server error".
C4_RelaysUtf8Body ==
  (Delivered /\ up.outcome = "success") =>
    /\ Len(sent) = 1
    /\ Utf8Decode(up.body).ok =>
         /\ sent[1].status = 200
         /\ sent[1].ctype = "application/json"
         /\ sent[1].body.kind = "raw"
         /\ sent[1].body.bytes = up.body
    /\ ~Utf8Decode(up.body).ok =>
         IsJsonError(sent[1], 500, {"error", "details"}, "Internal server error")
C4_Witness ==
  /\ Delivered
  /\ up.outcome = "success"
  /\ up.code = 201
  /\ up.body = <<195, 169>>
  /\ sent[1].status = 200
  /\ sent[1].body.bytes = <<195, 169>>

\* C5 as stated: when the upstream call ends with an HTTP error of status c
\* and body b, the caller gets status c and the JSON body {"error": "API
\* returned c", "status": c, "details": b}, for every error body b.
C5_RelaysEveryHttpError ==
  (Delivered /\ up.outcome = "httperror") =>
    /\ Len(sent) = 1
    /\ IsJsonError(sent[1], up.code, {"error", "status", "details"},
                   "API returned " \o ToString(up.code))
    /\ sent[1].body.status = sent[1].status
    /\ Utf8Encode(sent[1].body.details) = up.body

\* C5 amended: the same for every error body b that is valid UTF-8; for an
\* error body that is not valid UTF-8 the caller gets 500 "Internal server
\* error" instead of the upstream's status.
C5_RelaysUtf8HttpError ==
  (Delivered /\ up.outcome = "httperror") =>
    /\ Len(sent) = 1
    /\ Utf8Decode(up.body).ok =>
         /\ IsJsonError(sent[1], up.code, {"error", "status", "details"},
                        "API returned " \o ToString(up.code))
         /\ sent[1].body.status = sent[1].status
         /\ Utf8Encode(sent[1].body.details) = up.body
    /\ ~Utf8Decode(up.body).ok =>
         IsJsonError(sent[1], 500, {"error", "details"}, "Internal server error")
C5_Witness ==
  /\ Delivered
  /\ up.outcome = "httperror"
  /\ up.code = 401
  /\ up.body = <<65, 65>>
  /\ sent[1].status = 401
  /\ sent[1].body.status = 401
  /\ sent[1].body.details = <<65, 65>>

\* C6: when the upstream call ends without an HTTP response (DNS failure,
\* connection refused, timeout while connecting, waiting for or reading the
\* response), the caller gets 503 {"error": "Cannot reach API server",
\* "details": reason}, never 500.
NoResponseOutcomes ==
  {"dns", "refused", "timeout_connect", "timeout_wait", "timeout_read"}
C6_UnreachableIs503 ==
  (Delivered /\ up.outcome \in NoResponseOutcomes) =>
    /\ Len(sent) = 1
    /\ IsJsonError(sent[1], 503, {"error", "details"}, "Cannot reach API server")

\* C7 as stated: every POST to a path other than /api/proxy is answered 404
\* {"error": "Endpoint not found"} whatever its headers and body, and makes
\* no upstream call.
C7_OtherPathIs404 ==
  (req.method = "POST" /\ req.path # ProxyPath) =>
    /\ calls = 0
    /\ Delivered =>
         /\ Len(sent) = 1
         /\ IsJsonError(sent[1], 404, {"error"}, "Endpoint not found")

\* C7 amended: a POST to a path other than /api/proxy never makes an
\* upstream call; it is answered 404 {"error": "Endpoint not found"} when
\* its Content-Length is missing, 0 or the length of a body that is valid
\* UTF-8 (JSON or not), and 500 "Internal server error" when the
\* Content-Length is malformed or the body read is not valid UTF-8.
BodyReadFails ==
  \/ req.clen = "malformed"
  \/ req.clen \in {"exact", "over"} /\ ~req.body.utf8
C7_OtherPathIs404Or500 ==
  (req.method = "POST" /\ req.path # ProxyPath) =>
    /\ calls = 0
    /\ Delivered =>
         /\ Len(sent) = 1
         /\ ~BodyReadFails => IsJsonError(sent[1], 404, {"error"}, "Endpoint not found")
         /\ BodyReadFails =>
              IsJsonError(sent[1], 500, {"error", "details"}, "Internal server error")
C7_Witness ==
  /\ Delivered
  /\ req.method = "POST"
  /\ req.path = "/api/other"
  /\ req.clen = "exact"
  /\ req.body = [utf8 |-> TRUE, json |-> NotJson]
  /\ sent[1].status = 404
  /\ sent[1].body.error = "Endpoint not found"

\* C8: every POST to /api/proxy whose body parses as JSON and has no url or
\* an empty one is answered 400 {"error": "Missing 'url' in request"}, for
\* objects and for JSON values that are not objects, whatever apiKey is.
C8_MissingUrlIs400 ==
  (/\ Delivered
   /\ req.method = "POST"
   /\ req.path = ProxyPath
   /\ got.utf8
   /\ got.json.kind # "notjson"
   /\ ~PresentNonEmpty(got.json.url))
    => /\ Len(sent) = 1
       /\ IsJsonError(sent[1], 400, {"error"}, "Missing 'url' in request")
       /\ calls = 0

\* C9: under fairness every request the server starts handling completes
\* and the server returns to accepting the next one; neither a client that
\* sends less than it declared nor a slow upstream blocks the handler forever.
C9_EveryRequestCompletes == (pc # "idle") ~> (pc = "idle")

\* C10: every POST is answered with exactly one response: the handler emits
\* one status line and one header block, never none and never a second one
\* after a first has been started.
C10_ExactlyOneResponse ==
  /\ Len(sent) <= 1
  /\ (pc = "idle" /\ req.method = "POST") => Len(sent) = 1

====
